---- MODULE Spec2Model ----
(***************************************************************************)
(* Model of the compile-time connected-subgraph counter: the text scanner  *)
(* (text_parsing.h part of src/main.cpp), the arena graph (graph_raw,      *)
(* edge_storage_t) and the pipeline read_graph -> double_up_edges ->       *)
(* count_connected of src/main.cpp.                                        *)
(***************************************************************************)
EXTENDS Integers, Sequences, FiniteSets, TLC

\* ------------------------------------------------------------------------
\* Bounds of the model
\* ------------------------------------------------------------------------
MaxNodes == 3        \* largest node count N written in an input text
MaxPairs == 2        \* largest number M of edge pairs in an input text

\* ------------------------------------------------------------------------
\* Characters and text (std::string_view is a sequence of characters)
\* ------------------------------------------------------------------------
DigitChars == <<"0", "1", "2", "3", "4", "5", "6", "7", "8", "9">>

\* the character code of c, as far as the scanner looks at it
CharCode(c) ==
  CASE c = " "  -> 32
    [] c = "\n" -> 10
    [] OTHER    -> 47 + (CHOOSE k \in 1..10 : DigitChars[k] = c)

\* the characters of the texts
Chars == {" ", "\n"} \cup {DigitChars[k] : k \in 1..10}

\* the lambda of read_whitespace, as the function it computes
is_whitespace == [c \in Chars |-> (c = " " \/ c = "\n")]

\* the lambda of read_non_whitespace with the newline forgotten
is_non_whitespace_space_only == [c \in Chars |-> ~(c = " ")]

\* the lambda of read_non_whitespace, as the function it computes
is_non_whitespace == [c \in Chars |-> ~(c = " " \/ c = "\n")]

RECURSIVE first_failing(_, _, _)
\* the for loop of read_generic: the index of the first character of text,
\* at or after position index + 1, for which func is false
first_failing(text, func, index) ==
  IF index < Len(text) /\ func[text[index + 1]]
    THEN first_failing(text, func, index + 1)
    ELSE index

\* read_generic: the token, and the text the cursor is left with (index is
\* bound to its value once, where the loop ends)
read_generic(text, func) ==
  CHOOSE ret \in
    { [token |-> SubSeq(text, 1, Len(text) - (Len(text) - index)),
       text  |-> SubSeq(text, index + 1, Len(text))] :
      index \in {first_failing(text, func, 0)} } : TRUE

read_non_whitespace(input) == read_generic(input, is_non_whitespace)

read_whitespace(input) == read_generic(input, is_whitespace)

\* size_t: 64 bits, held as four 16-bit limbs, least significant first
LimbBase == 2^16

size_t_zero == <<0, 0, 0, 0>>

\* rval * 10 + d in size_t arithmetic: the carry out of the top limb is lost
size_t_mul10_add(rval, d) ==
  LET t0 == rval[1] * 10 + d
      t1 == rval[2] * 10 + t0 \div LimbBase
      t2 == rval[3] * 10 + t1 \div LimbBase
      t3 == rval[4] * 10 + t2 \div LimbBase
  IN  <<t0 % LimbBase, t1 % LimbBase, t2 % LimbBase, t3 % LimbBase>>

\* the integer a size_t holds (the indices and counts of the model are small)
size_t_value(v) ==
  v[1] + LimbBase * (v[2] + LimbBase * (v[3] + LimbBase * v[4]))

RECURSIVE view_to_int_from(_, _, _)
\* the for loop of view_to_int from the k-th character on; rval is updated
\* once for each character
view_to_int_from(input, k, rval) ==
  IF k > Len(input) THEN rval
  ELSE CHOOSE result \in
         { view_to_int_from(input, k + 1, next_rval) :
           next_rval \in {size_t_mul10_add(rval, CharCode(input[k]) - 48)} } : TRUE

\* view_to_int, as the size_t it returns
view_to_int_size_t(input) == view_to_int_from(input, 1, size_t_zero)

view_to_int(input) == size_t_value(view_to_int_size_t(input))

\* read_int that leaves the white space after the token in the cursor
read_int_size_t_no_skip(input) ==
  LET t == read_non_whitespace(input)
  IN  [ret |-> view_to_int_size_t(t.token), text |-> t.text]

\* read_int: the size_t returned, and the text the cursor is left with (t is
\* the token and the cursor after read_non_whitespace, taken once)
read_int_size_t(input) ==
  CHOOSE ret \in
    { [ret  |-> view_to_int_size_t(t.token),
       text |-> read_whitespace(t.text).text] :
      t \in {read_non_whitespace(input)} } : TRUE

\* read_int, with the size_t returned as a number
read_int(input) ==
  LET r == read_int_size_t(input)
  IN  [ret |-> size_t_value(r.ret), text |-> r.text]

\* read_int_v works on a copy of the view: only the size_t comes back
read_int_v_size_t(input) == read_int_size_t(input).ret

\* read_int_v, with the size_t returned as a number
read_int_v(input) == size_t_value(read_int_v_size_t(input))

RECURSIVE count_words_from(_, _, _, _)
\* the loop of count_words with currently_in_a_word never reset
count_words_from_sticky(input, k, currently_in_a_word, word_count) ==
  IF k > Len(input) THEN word_count
  ELSE LET c_is_whitespace == (input[k] = " " \/ input[k] = "\n")
       IN  count_words_from(input, k + 1, currently_in_a_word \/ ~c_is_whitespace,
             IF ~c_is_whitespace /\ ~currently_in_a_word
               THEN word_count + 1 ELSE word_count)

count_words_from(input, k, currently_in_a_word, word_count) ==
  IF k > Len(input) THEN word_count
  ELSE LET c_is_whitespace == (input[k] = " " \/ input[k] = "\n")
       IN  count_words_from(input, k + 1, ~c_is_whitespace,
             IF ~c_is_whitespace /\ ~currently_in_a_word
               THEN word_count + 1 ELSE word_count)

count_words(input) == count_words_from(input, 1, FALSE, 0)

\* ------------------------------------------------------------------------
\* Identifiers: numeric_id_t holds a std::optional<size_t>; an optional is
\* modelled as a sequence of length 0 (no value) or 1 (the value)
\* ------------------------------------------------------------------------
nullopt == <<>>

has_value(o) == o # <<>>

value(o) == o[1]

\* numeric_id_t( size_t ), used as node_id_t{..} and edge_id_t{..}
numeric_id_t(arg_id) == <<arg_id>>

\* numeric_id_t(), the default constructor
numeric_id_default == nullopt

\* optional_edge_id_t holding an edge_id_t
optional_edge_id_t(edge_id) == <<edge_id>>

\* ------------------------------------------------------------------------
\* Edges, the edge arena, nodes
\* ------------------------------------------------------------------------
edge_t(arg_dst_node, arg_next_edge) ==
  [dst_node |-> arg_dst_node, next_edge |-> arg_next_edge]

\* edge_t(), the default constructor
edge_default == [dst_node |-> numeric_id_default, next_edge |-> nullopt]

\* edge_storage_t< max_edges >(), arrays are indexed from 0
edge_storage_t(max_edges) ==
  [edge_memory    |-> [k \in 0..(max_edges - 1) |-> edge_default],
   next_available |-> 0]

\* alloc_edge with the link to the rest of the list dropped
alloc_edge_unlinked(pool, node, next) ==
  LET candidate == pool.next_available
      advanced  == [pool EXCEPT !.next_available = candidate + 1]
  IN  IF candidate \in DOMAIN pool.edge_memory
        THEN [pool |-> [advanced EXCEPT !.edge_memory[candidate] = edge_t(node, nullopt)],
              ret  |-> numeric_id_t(candidate),
              threw |-> FALSE]
        ELSE [pool |-> advanced, ret |-> numeric_id_default, threw |-> TRUE]

\* alloc_edge: next_available is advanced before edge_memory.at( candidate )
\* is evaluated; at() throws std::out_of_range when candidate >= max_edges
alloc_edge(pool, node, next) ==
  LET candidate == pool.next_available
      advanced  == [pool EXCEPT !.next_available = candidate + 1]
  IN  IF candidate \in DOMAIN pool.edge_memory
        THEN [pool |-> [advanced EXCEPT !.edge_memory[candidate] = edge_t(node, next)],
              ret  |-> numeric_id_t(candidate),
              threw |-> FALSE]
        ELSE [pool |-> advanced, ret |-> numeric_id_default, threw |-> TRUE]

\* edge_storage_t::get_edge: edge_memory.at( index.value() )
get_edge_in_range(pool, index) == value(index) \in DOMAIN pool.edge_memory

get_edge(pool, index) == pool.edge_memory[value(index)]

\* node_t( size_t ) and node_t()
node_t(node_id_arg) ==
  [node_id |-> numeric_id_t(node_id_arg), edge_begin_id |-> nullopt]

node_default == [node_id |-> numeric_id_default, edge_begin_id |-> nullopt]

\* ------------------------------------------------------------------------
\* graph_raw< max_nodes, max_edges >
\* ------------------------------------------------------------------------
graph_raw(max_nodes, max_edges, used_nodes_arg) ==
  [used_nodes |-> used_nodes_arg,
   nodes      |-> [k \in 0..(max_nodes - 1) |->
                     IF k < used_nodes_arg THEN node_t(k) ELSE node_default],
   edges      |-> edge_storage_t(max_edges)]

get_num_nodes(graph) == graph.used_nodes

\* nodes().at( id.value() ) throws std::out_of_range outside the array
node_in_range(graph, node_idx) == value(node_idx) \in DOMAIN graph.nodes

\* add_edge that returns without an exception when src_node is outside the
\* node array
add_edge_ignores_range(graph, src_node, dst_node) ==
  IF ~node_in_range(graph, src_node)
    THEN [graph |-> graph, threw |-> "none"]
    ELSE LET node           == graph.nodes[value(src_node)]
             old_first_edge == node.edge_begin_id
             a              == alloc_edge(graph.edges, dst_node, old_first_edge)
         IN  IF a.threw
               THEN [graph |-> [graph EXCEPT !.edges = a.pool],
                     threw |-> "alloc_edge.at"]
               ELSE [graph |-> [graph EXCEPT
                                  !.edges = a.pool,
                                  !.nodes[value(src_node)].edge_begin_id =
                                      optional_edge_id_t(a.ret)],
                     threw |-> "none"]

\* add_edge: the graph it leaves, and the exception it ends with ("none" when
\* it returns)
add_edge(graph, src_node, dst_node) ==
  IF ~node_in_range(graph, src_node)
    THEN [graph |-> graph, threw |-> "nodes.at"]
    ELSE LET node           == graph.nodes[value(src_node)]
             old_first_edge == node.edge_begin_id
             a              == alloc_edge(graph.edges, dst_node, old_first_edge)
         IN  IF a.threw
               THEN [graph |-> [graph EXCEPT !.edges = a.pool],
                     threw |-> "alloc_edge.at"]
               ELSE [graph |-> [graph EXCEPT
                                  !.edges = a.pool,
                                  !.nodes[value(src_node)].edge_begin_id =
                                      optional_edge_id_t(a.ret)],
                     threw |-> "none"]

first_edge(graph, node_idx) == graph.nodes[value(node_idx)].edge_begin_id

next_edge(graph, edge_idx) == get_edge(graph.edges, edge_idx).next_edge

dst_node_of(graph, edge_idx) == get_edge(graph.edges, edge_idx).dst_node

\* ------------------------------------------------------------------------
\* read_graph( text ), for graph_t = graph_raw< max_nodes, max_edges >.
\* A frame holds the locals; threw names the exception that ended the call
\* ("none" while it runs and when it returns)
\* ------------------------------------------------------------------------
read_graph_begin(text, max_nodes, max_edges) ==
  CHOOSE begun \in
    { [text  |-> num_nodes.text,
       graph |-> graph_raw(max_nodes, max_edges, num_nodes.ret),
       threw |-> "none"] :
      num_nodes \in {read_int(text)} } : TRUE

\* the loop condition of an if in place of the while: one pair at most
read_graph_more_once(f) == Len(f.text) > 0 /\ f.graph.edges.next_available = 0

\* the condition of the while loop
read_graph_more(f) == Len(f.text) > 0

\* the body with source and destination exchanged
read_graph_body_swapped(f) ==
  LET src_node == read_int(f.text)
      dst_node == read_int(src_node.text)
      a        == add_edge(f.graph, numeric_id_t(dst_node.ret),
                           numeric_id_t(src_node.ret))
  IN  [text |-> dst_node.text, graph |-> a.graph, threw |-> a.threw]

\* one pass through the body of the while loop; src_node is constructed
\* once, before dst_node
read_graph_body(f) ==
  CHOOSE after \in
    { LET dst_node == read_int(src_node.text)
          a        == add_edge(f.graph, numeric_id_t(src_node.ret),
                               numeric_id_t(dst_node.ret))
      IN  [text |-> dst_node.text, graph |-> a.graph, threw |-> a.threw] :
      src_node \in {read_int(f.text)} } : TRUE

RECURSIVE read_graph_loop(_)
read_graph_loop(f) ==
  IF f.threw = "none" /\ read_graph_more(f)
    THEN read_graph_loop(read_graph_body(f))
    ELSE f

read_graph(text, max_nodes, max_edges) ==
  read_graph_loop(read_graph_begin(text, max_nodes, max_edges))

\* ------------------------------------------------------------------------
\* double_up_edges( graph ).  A frame holds new_graph, i, edge_idx and the
\* place in the loop nest: "for_i" (test of the outer loop), "for_edge" (test
\* of the inner loop), "return"
\* ------------------------------------------------------------------------
double_up_begin(graph) ==
  [new_graph |-> graph_raw(Cardinality(DOMAIN graph.nodes),
                           Cardinality(DOMAIN graph.edges.edge_memory),
                           get_num_nodes(graph)),
   i         |-> 0,
   edge_idx  |-> nullopt,
   at        |-> "for_i",
   threw     |-> "none"]

\* the outer loop: its test, and the initialisation of the inner loop
double_up_for_i(graph, f) ==
  IF f.i < get_num_nodes(graph)
    THEN IF node_in_range(graph, numeric_id_t(f.i))
           THEN [f EXCEPT !.edge_idx = first_edge(graph, numeric_id_t(f.i)),
                          !.at = "for_edge"]
           ELSE [f EXCEPT !.threw = "nodes.at"]
    ELSE [f EXCEPT !.at = "return"]

\* the inner loop without the reverse edge
double_up_for_edge_forward_only(graph, f) ==
  IF ~has_value(f.edge_idx)
    THEN [f EXCEPT !.i = f.i + 1, !.at = "for_i"]
    ELSE IF ~get_edge_in_range(graph.edges, value(f.edge_idx))
      THEN [f EXCEPT !.threw = "get_edge.at"]
      ELSE LET node_idx == numeric_id_t(f.i)
               dst_node == dst_node_of(graph, value(f.edge_idx))
               a1       == add_edge(f.new_graph, node_idx, dst_node)
           IN  IF a1.threw # "none"
                 THEN [f EXCEPT !.new_graph = a1.graph, !.threw = a1.threw]
                 ELSE [f EXCEPT !.new_graph = a1.graph,
                                !.edge_idx = next_edge(graph, value(f.edge_idx))]

\* the inner loop: its test, its body and its increment
double_up_for_edge(graph, f) ==
  IF ~has_value(f.edge_idx)
    THEN [f EXCEPT !.i = f.i + 1, !.at = "for_i"]
    ELSE IF ~get_edge_in_range(graph.edges, value(f.edge_idx))
      THEN [f EXCEPT !.threw = "get_edge.at"]
      ELSE LET node_idx == numeric_id_t(f.i)
               dst_node == dst_node_of(graph, value(f.edge_idx))
               a1       == add_edge(f.new_graph, node_idx, dst_node)
               a2       == add_edge(a1.graph, dst_node, node_idx)
           IN  IF a1.threw # "none"
                 THEN [f EXCEPT !.new_graph = a1.graph, !.threw = a1.threw]
                 ELSE IF a2.threw # "none"
                   THEN [f EXCEPT !.new_graph = a2.graph, !.threw = a2.threw]
                   ELSE [f EXCEPT !.new_graph = a2.graph,
                                  !.edge_idx = next_edge(graph, value(f.edge_idx))]

double_up_step(graph, f) ==
  IF f.at = "for_i" THEN double_up_for_i(graph, f)
                    ELSE double_up_for_edge(graph, f)

RECURSIVE double_up_loop(_, _)
double_up_loop(graph, f) ==
  IF f.threw = "none" /\ f.at # "return"
    THEN double_up_loop(graph, double_up_step(graph, f))
    ELSE f

\* double_up_edges: [new_graph, threw]
double_up_edges(graph) == double_up_loop(graph, double_up_begin(graph))

\* ------------------------------------------------------------------------
\* mark_connected and count_connected.  visited is the
\* std::array< int, max_graph_nodes >; m = [visited, threw]
\* ------------------------------------------------------------------------
RECURSIVE mark_connected(_, _, _, _)
RECURSIVE mark_connected_for(_, _, _, _)
mark_connected(graph, node_idx, m, color) ==
  IF value(node_idx) \notin DOMAIN m.visited
    THEN [m EXCEPT !.threw = "visited.at"]
    ELSE IF ~node_in_range(graph, node_idx)
      THEN [m EXCEPT !.visited[value(node_idx)] = color, !.threw = "nodes.at"]
      ELSE mark_connected_for(graph, first_edge(graph, node_idx),
                              [m EXCEPT !.visited[value(node_idx)] = color], color)

\* the for loop that labels an unvisited neighbour without walking on from it
mark_connected_for_shallow(graph, edge_idx, m, color) ==
  IF m.threw # "none" \/ ~has_value(edge_idx) THEN m
  ELSE IF ~get_edge_in_range(graph.edges, value(edge_idx))
    THEN [m EXCEPT !.threw = "get_edge.at"]
    ELSE LET dst_node == dst_node_of(graph, value(edge_idx))
         IN  IF value(dst_node) \notin DOMAIN m.visited
               THEN [m EXCEPT !.threw = "visited.at"]
               ELSE mark_connected_for(graph, next_edge(graph, value(edge_idx)),
                      IF m.visited[value(dst_node)] = -1
                        THEN [m EXCEPT !.visited[value(dst_node)] = color]
                        ELSE m,
                      color)

\* the for loop of mark_connected, from edge_idx on
mark_connected_for(graph, edge_idx, m, color) ==
  IF m.threw # "none" \/ ~has_value(edge_idx) THEN m
  ELSE IF ~get_edge_in_range(graph.edges, value(edge_idx))
    THEN [m EXCEPT !.threw = "get_edge.at"]
    ELSE LET dst_node == dst_node_of(graph, value(edge_idx))
         IN  IF value(dst_node) \notin DOMAIN m.visited
               THEN [m EXCEPT !.threw = "visited.at"]
               ELSE mark_connected_for(graph, next_edge(graph, value(edge_idx)),
                      IF m.visited[value(dst_node)] = -1
                        THEN mark_connected(graph, dst_node, m, color)
                        ELSE m,
                      color)

RECURSIVE count_connected_for(_, _, _, _)
\* the for loop of count_connected, from i on: [ret, visited, threw]
count_connected_for(graph, i, m, color) ==
  IF m.threw # "none" \/ ~(i < get_num_nodes(graph))
    THEN [ret |-> color, visited |-> m.visited, threw |-> m.threw]
    ELSE IF i \notin DOMAIN m.visited
      THEN [ret |-> color, visited |-> m.visited, threw |-> "visited.at"]
      ELSE IF m.visited[i] = -1
        THEN count_connected_for(graph, i + 1,
               mark_connected(graph, numeric_id_t(i), m, color), color + 1)
        ELSE count_connected_for(graph, i + 1, m, color)

count_connected(graph) ==
  count_connected_for(graph, 0,
    [visited |-> [k \in DOMAIN graph.nodes |-> -1], threw |-> "none"], 0)

\* ------------------------------------------------------------------------
\* count_connected( graph ) one step at a time.  A frame holds visited,
\* color, i, the stack of the mark_connected calls under way (node_idx and
\* edge_idx of each, the innermost last) and the place: "call", "for_i" (test
\* of the loop of count_connected), "mark_connected" (test of the loop of the
\* innermost mark_connected), "return"
\* ------------------------------------------------------------------------
count_connected_begin(graph) ==
  [visited |-> [k \in DOMAIN graph.nodes |-> -1],
   color   |-> 0,
   i       |-> 0,
   stack   |-> <<>>,
   at      |-> "for_i",
   threw   |-> "none"]

\* mark_connected without the test of visited
mark_unvisited_always(f, dst_node) == TRUE

\* the test of visited against the colour in use
mark_unvisited_other_color(f, dst_node) == f.visited[value(dst_node)] # f.color

\* the test mark_connected makes before it calls itself
mark_unvisited(f, dst_node) == f.visited[value(dst_node)] = -1

\* entry of mark_connected( graph, node_idx, visited, color ): the write to
\* visited and the initialisation of the for loop
mark_connected_enter(graph, f, node_idx) ==
  IF value(node_idx) \notin DOMAIN f.visited
    THEN [f EXCEPT !.threw = "visited.at"]
    ELSE IF ~node_in_range(graph, node_idx)
      THEN [f EXCEPT !.visited[value(node_idx)] = f.color, !.threw = "nodes.at"]
      ELSE [f EXCEPT !.visited[value(node_idx)] = f.color,
                     !.stack = Append(f.stack,
                                 [node_idx |-> node_idx,
                                  edge_idx |-> first_edge(graph, node_idx)]),
                     !.at = "mark_connected"]

\* the loop of count_connected: its test, and its body up to the call
count_connected_for_i(graph, f) ==
  IF ~(f.i < get_num_nodes(graph))
    THEN [f EXCEPT !.at = "return"]
    ELSE IF f.i \notin DOMAIN f.visited
      THEN [f EXCEPT !.threw = "visited.at"]
      ELSE IF f.visited[f.i] = -1
        THEN mark_connected_enter(graph, f, numeric_id_t(f.i))
        ELSE [f EXCEPT !.i = f.i + 1]

\* the body of the loop of the innermost mark_connected, up to the call of
\* mark_connected or, without a call, through the increment
mark_connected_for_edge(graph, f) ==
  LET edge_idx == f.stack[Len(f.stack)].edge_idx
  IN  IF ~get_edge_in_range(graph.edges, value(edge_idx))
        THEN [f EXCEPT !.threw = "get_edge.at"]
        ELSE LET dst_node == dst_node_of(graph, value(edge_idx))
             IN  IF value(dst_node) \notin DOMAIN f.visited
                   THEN [f EXCEPT !.threw = "visited.at"]
                   ELSE IF mark_unvisited(f, dst_node)
                     THEN mark_connected_enter(graph, f, dst_node)
                     ELSE [f EXCEPT !.stack[Len(f.stack)].edge_idx =
                                       next_edge(graph, value(edge_idx))]

\* the return that leaves the colour as it is
mark_connected_return_same_color(graph, f) ==
  LET rest == SubSeq(f.stack, 1, Len(f.stack) - 1)
  IN  IF rest = <<>>
        THEN [f EXCEPT !.stack = rest, !.i = f.i + 1, !.at = "for_i"]
        ELSE [f EXCEPT !.stack = [rest EXCEPT ![Len(rest)].edge_idx =
                                    next_edge(graph, value(rest[Len(rest)].edge_idx))]]

\* the innermost mark_connected returns, and its caller goes on: the
\* increment of the loop of mark_connected, or ++color and ++i in
\* count_connected
mark_connected_return(graph, f) ==
  LET rest == SubSeq(f.stack, 1, Len(f.stack) - 1)
  IN  IF rest = <<>>
        THEN [f EXCEPT !.stack = rest, !.color = f.color + 1, !.i = f.i + 1,
                       !.at = "for_i"]
        ELSE [f EXCEPT !.stack = [rest EXCEPT ![Len(rest)].edge_idx =
                                    next_edge(graph, value(rest[Len(rest)].edge_idx))]]

\* ------------------------------------------------------------------------
\* src/unnamed/part_001: the program with raw indices.  Edge and node
\* indices are size_t, the head of a node is an int, and -1 ends a list: as
\* a size_t it is 2^64 - 1, written -1 here (indices stay far below 2^31, so
\* the conversions between int and size_t leave every other value as it is).
\* A graph is [used_nodes, nodes, edges] as above, with plain numbers in the
\* fields.
\* ------------------------------------------------------------------------
\* edge_t(): dst_node = 0, next_edge = -1
sentinel_edge_default == [dst_node |-> 0, next_edge |-> -1]

sentinel_edge_storage_t(max_edges) ==
  [edge_memory    |-> [k \in 0..(max_edges - 1) |-> sentinel_edge_default],
   next_available |-> 0]

\* alloc_edge: next_available is advanced, then edge_memory.at( candidate )
\* is written twice
sentinel_alloc_edge(pool, node, next) ==
  LET candidate == pool.next_available
      advanced  == [pool EXCEPT !.next_available = candidate + 1]
  IN  IF candidate \in DOMAIN pool.edge_memory
        THEN [pool |-> [advanced EXCEPT
                          !.edge_memory[candidate] = [dst_node |-> node, next_edge |-> next]],
              ret  |-> candidate,
              threw |-> FALSE]
        ELSE [pool |-> advanced, ret |-> -1, threw |-> TRUE]

\* node_t( int ) and node_t()
sentinel_node_t(node_id_arg) == [node_id |-> node_id_arg, edge_begin_id |-> -1]

sentinel_node_default == [node_id |-> -1, edge_begin_id |-> -1]

sentinel_graph_raw(max_nodes, max_edges, used_nodes_arg) ==
  [used_nodes |-> used_nodes_arg,
   nodes      |-> [k \in 0..(max_nodes - 1) |->
                     IF k < used_nodes_arg THEN sentinel_node_t(k)
                                           ELSE sentinel_node_default],
   edges      |-> sentinel_edge_storage_t(max_edges)]

\* add_edge: [graph, threw]
sentinel_add_edge(gr, src_node, dst_node) ==
  IF src_node \notin DOMAIN gr.nodes
    THEN [graph |-> gr, threw |-> "nodes.at"]
    ELSE LET old_first_edge == gr.nodes[src_node].edge_begin_id
             a              == sentinel_alloc_edge(gr.edges, dst_node, old_first_edge)
         IN  IF a.threw
               THEN [graph |-> [gr EXCEPT !.edges = a.pool], threw |-> "alloc_edge.at"]
               ELSE [graph |-> [gr EXCEPT !.edges = a.pool,
                                          !.nodes[src_node].edge_begin_id = a.ret],
                     threw |-> "none"]

\* the test edge_idx != -1 with 0 taken for the end of a list as well
sentinel_at_end_or_zero(edge_idx) == edge_idx = -1 \/ edge_idx = 0

\* the negation of the loop test edge_idx != -1
sentinel_at_end(edge_idx) == edge_idx = -1

RECURSIVE sentinel_read_graph_loop(_)
\* the while loop of read_graph, on a frame [text, graph, threw]
sentinel_read_graph_loop(f) ==
  IF f.threw # "none" \/ ~(Len(f.text) > 0) THEN f
  ELSE LET src_node == read_int(f.text)
           dst_node == read_int(src_node.text)
           a        == sentinel_add_edge(f.graph, src_node.ret, dst_node.ret)
       IN  sentinel_read_graph_loop(
             [text |-> dst_node.text, graph |-> a.graph, threw |-> a.threw])

sentinel_read_graph(text, max_nodes, max_edges) ==
  LET num_nodes == read_int(text)
  IN  sentinel_read_graph_loop(
        [text  |-> num_nodes.text,
         graph |-> sentinel_graph_raw(max_nodes, max_edges, num_nodes.ret),
         threw |-> "none"])

RECURSIVE sentinel_double_up_for_edge(_, _, _, _)
\* the inner loop of double_up_edges from edge_idx on; new is [graph, threw]
sentinel_double_up_for_edge(gr, new, node_idx, edge_idx) ==
  IF new.threw # "none" \/ sentinel_at_end(edge_idx) THEN new
  ELSE IF edge_idx \notin DOMAIN gr.edges.edge_memory
    THEN [new EXCEPT !.threw = "get_edge.at"]
    ELSE LET dst_node == gr.edges.edge_memory[edge_idx].dst_node
             a1       == sentinel_add_edge(new.graph, node_idx, dst_node)
             a2       == sentinel_add_edge(a1.graph, dst_node, node_idx)
         IN  sentinel_double_up_for_edge(gr,
               IF a1.threw # "none" THEN a1 ELSE a2,
               node_idx, gr.edges.edge_memory[edge_idx].next_edge)

RECURSIVE sentinel_double_up_for_node(_, _, _)
\* the outer loop of double_up_edges from node_idx on
sentinel_double_up_for_node(gr, new, node_idx) ==
  IF new.threw # "none" \/ ~(node_idx < gr.used_nodes) THEN new
  ELSE IF node_idx \notin DOMAIN gr.nodes
    THEN [new EXCEPT !.threw = "nodes.at"]
    ELSE sentinel_double_up_for_node(gr,
           sentinel_double_up_for_edge(gr, new, node_idx,
                                       gr.nodes[node_idx].edge_begin_id),
           node_idx + 1)

\* double_up_edges: [graph, threw]
sentinel_double_up_edges(gr) ==
  sentinel_double_up_for_node(gr,
    [graph |-> sentinel_graph_raw(Cardinality(DOMAIN gr.nodes),
                                  Cardinality(DOMAIN gr.edges.edge_memory),
                                  gr.used_nodes),
     threw |-> "none"],
    0)

RECURSIVE sentinel_mark_connected(_, _, _, _)
RECURSIVE sentinel_mark_connected_for(_, _, _, _)
\* mark_connected; m is [visited, threw]
sentinel_mark_connected(gr, node_idx, m, color) ==
  IF node_idx \notin DOMAIN m.visited
    THEN [m EXCEPT !.threw = "visited.at"]
    ELSE IF node_idx \notin DOMAIN gr.nodes
      THEN [m EXCEPT !.visited[node_idx] = color, !.threw = "nodes.at"]
      ELSE sentinel_mark_connected_for(gr, gr.nodes[node_idx].edge_begin_id,
             [m EXCEPT !.visited[node_idx] = color], color)

\* the for loop of mark_connected, from edge_idx on
sentinel_mark_connected_for(gr, edge_idx, m, color) ==
  IF m.threw # "none" \/ sentinel_at_end(edge_idx) THEN m
  ELSE IF edge_idx \notin DOMAIN gr.edges.edge_memory
    THEN [m EXCEPT !.threw = "get_edge.at"]
    ELSE LET dst_node == gr.edges.edge_memory[edge_idx].dst_node
         IN  IF dst_node \notin DOMAIN m.visited
               THEN [m EXCEPT !.threw = "visited.at"]
               ELSE sentinel_mark_connected_for(gr,
                      gr.edges.edge_memory[edge_idx].next_edge,
                      IF m.visited[dst_node] = -1
                        THEN sentinel_mark_connected(gr, dst_node, m, color)
                        ELSE m,
                      color)

RECURSIVE sentinel_count_connected_for(_, _, _, _)
\* the for loop of count_connected, from node_idx on: [ret, threw]
sentinel_count_connected_for(gr, node_idx, m, color) ==
  IF m.threw # "none" \/ ~(node_idx < gr.used_nodes)
    THEN [ret |-> color, threw |-> m.threw]
    ELSE IF node_idx \notin DOMAIN m.visited
      THEN [ret |-> color, threw |-> "visited.at"]
      ELSE IF m.visited[node_idx] = -1
        THEN sentinel_count_connected_for(gr, node_idx + 1,
               sentinel_mark_connected(gr, node_idx, m, color), color + 1)
        ELSE sentinel_count_connected_for(gr, node_idx + 1, m, color)

sentinel_count_connected(gr) ==
  sentinel_count_connected_for(gr, 0,
    [visited |-> [k \in DOMAIN gr.nodes |-> -1], threw |-> "none"], 0)

\* graph, bidir_graph and connected_subgraphs of part_001 (lines 225-228):
\* [ret, threw]
sentinel_pipeline(text) ==
  LET r == sentinel_read_graph(text, read_int_v(text), count_words(text))
  IN  IF r.threw # "none" THEN [ret |-> -1, threw |-> r.threw]
      ELSE LET d == sentinel_double_up_edges(r.graph)
           IN  IF d.threw # "none" THEN [ret |-> -1, threw |-> d.threw]
               ELSE sentinel_count_connected(d.graph)

\* ------------------------------------------------------------------------
\* src/README.md: the documented program.  Its ids, edges, nodes, graph_raw
\* and read_graph store what those of main.cpp store; count_connected
\* doubles the edges itself and keeps a std::array< bool, max_graph_nodes >
\* ------------------------------------------------------------------------
RECURSIVE readme_double_up_while(_, _, _, _)
\* the while loop of double_up_edges over the edges of one node, from
\* edge_itr on; new is [graph, threw]
readme_double_up_while(gr, new, node_idx, edge_itr) ==
  IF new.threw # "none" \/ ~has_value(edge_itr) THEN new
  ELSE IF ~get_edge_in_range(gr.edges, value(edge_itr))
    THEN [new EXCEPT !.threw = "get_edge.at"]
    ELSE LET edge     == get_edge(gr.edges, value(edge_itr))
             a1       == add_edge(new.graph, node_idx, edge.dst_node)
             a2       == add_edge(a1.graph, edge.dst_node, node_idx)
         IN  readme_double_up_while(gr, IF a1.threw # "none" THEN a1 ELSE a2,
                                    node_idx, edge.next_edge)

RECURSIVE readme_double_up_for(_, _, _)
\* for( const auto& node : graph ), from the k-th node on
readme_double_up_for(gr, new, k) ==
  IF new.threw # "none" \/ ~(k < get_num_nodes(gr)) THEN new
  ELSE readme_double_up_for(gr,
         readme_double_up_while(gr, new, gr.nodes[k].node_id, gr.nodes[k].edge_begin_id),
         k + 1)

readme_double_up_edges(gr) ==
  readme_double_up_for(gr,
    [graph |-> graph_raw(Cardinality(DOMAIN gr.nodes),
                         Cardinality(DOMAIN gr.edges.edge_memory),
                         get_num_nodes(gr)),
     threw |-> "none"],
    0)

RECURSIVE readme_mark_connected(_, _, _)
RECURSIVE readme_mark_connected_while(_, _, _)
\* mark_connected; m is [visited, threw]
readme_mark_connected(gr, node_idx, m) ==
  IF value(node_idx) \notin DOMAIN m.visited
    THEN [m EXCEPT !.threw = "visited.at"]
    ELSE IF ~node_in_range(gr, node_idx)
      THEN [m EXCEPT !.visited[value(node_idx)] = TRUE, !.threw = "nodes.at"]
      ELSE readme_mark_connected_while(gr, first_edge(gr, node_idx),
             [m EXCEPT !.visited[value(node_idx)] = TRUE])

\* the while loop of mark_connected, from edge_itr on
readme_mark_connected_while(gr, edge_itr, m) ==
  IF m.threw # "none" \/ ~has_value(edge_itr) THEN m
  ELSE IF ~get_edge_in_range(gr.edges, value(edge_itr))
    THEN [m EXCEPT !.threw = "get_edge.at"]
    ELSE LET edge == get_edge(gr.edges, value(edge_itr))
         IN  IF value(edge.dst_node) \notin DOMAIN m.visited
               THEN [m EXCEPT !.threw = "visited.at"]
               ELSE readme_mark_connected_while(gr, edge.next_edge,
                      IF ~m.visited[value(edge.dst_node)]
                        THEN readme_mark_connected(gr, edge.dst_node, m)
                        ELSE m)

RECURSIVE readme_count_connected_for(_, _, _, _)
\* for ( const auto& node : bidir_graph ), from the k-th node on:
\* [ret, threw]
readme_count_connected_for(bidir, k, m, subgraph_count) ==
  IF m.threw # "none" \/ ~(k < get_num_nodes(bidir))
    THEN [ret |-> subgraph_count, threw |-> m.threw]
    ELSE LET node_id == bidir.nodes[k].node_id
         IN  IF value(node_id) \notin DOMAIN m.visited
               THEN [ret |-> subgraph_count, threw |-> "visited.at"]
               ELSE IF ~m.visited[value(node_id)]
                 THEN readme_count_connected_for(bidir, k + 1,
                        readme_mark_connected(bidir, node_id, m), subgraph_count + 1)
                 ELSE readme_count_connected_for(bidir, k + 1, m, subgraph_count)

\* count_connected( graph ): [ret, threw]
readme_count_connected(gr) ==
  LET d == readme_double_up_edges(gr)
  IN  IF d.threw # "none" THEN [ret |-> -1, threw |-> d.threw]
      ELSE readme_count_connected_for(d.graph, 0,
             [visited |-> [k \in DOMAIN d.graph.nodes |-> FALSE], threw |-> "none"], 0)

\* graph and connected_subgraphs of the README: [ret, threw]
readme_pipeline(text) ==
  LET r == read_graph(text, read_int_v(text), count_words(text))
  IN  IF r.threw # "none" THEN [ret |-> -1, threw |-> r.threw]
      ELSE readme_count_connected(r.graph)

\* ------------------------------------------------------------------------
\* Input texts: the node count, then the pairs, written in one of two
\* styles: tokens separated by single spaces with nothing after the last
\* token; or two-digit tokens with a leading zero, separated by a space and
\* a newline, with a newline after the last token
\* ------------------------------------------------------------------------
Styles == {"plain", "padded"}

Token(n, style) ==
  IF style = "padded" THEN <<"0", DigitChars[n + 1]>> ELSE <<DigitChars[n + 1]>>

Separator(style) == IF style = "padded" THEN <<" ", "\n">> ELSE <<" ">>

Trailer(style) == IF style = "padded" THEN <<"\n">> ELSE <<>>

RECURSIVE PairsText(_, _)
PairsText(pairs, style) ==
  IF pairs = <<>> THEN <<>>
  ELSE Separator(style) \o Token(Head(pairs)[1], style) \o
       Separator(style) \o Token(Head(pairs)[2], style) \o
       PairsText(Tail(pairs), style)

\* the text of an input [nodes, pairs, style]
TextOf(in) ==
  Token(in.nodes, in.style) \o PairsText(in.pairs, in.style) \o Trailer(in.style)

\* node ids written in a text with node count n: 0..n-1, and n itself, which
\* is out of range
IdsFor(n) == 0..n

\* the sequences of m pairs written in a text with node count n
PairsFor(n, m) == [1..m -> IdsFor(n) \X IdsFor(n)]

\* ------------------------------------------------------------------------
\* State
\* ------------------------------------------------------------------------
VARIABLES
  input,               \* the numbers and the style graph_text was written from
  graph_text,          \* constexpr std::string_view graph_text{ input }
  pc,                  \* the place in the evaluation
  phase,               \* "main": lines 229-232; "again": doubling bidir_graph
  reading,             \* the frame of read_graph: text, graph, threw
  doubling,            \* the frame of double_up_edges
  graph,               \* constexpr graph_t graph
  bidir_graph,         \* constexpr graph_t bidir_graph
  connected_subgraphs, \* constexpr int connected_subgraphs
  twice_graph,         \* double_up_edges( bidir_graph )
  connected_twice,     \* count_connected( twice_graph )
  threw,               \* the exception that ended the evaluation, or "none"
  calls,               \* add_edge calls that returned, on the graph read
  new_calls,           \* add_edge calls that returned, on new_graph
  scan_in,             \* the text a scanner function is called with
  scan_op,             \* the scanner function called, "none" before the call
  scan_out,            \* what the call returned and left in the cursor
  count_graph,         \* the graph count_connected is stepped through on
  counting,            \* the frame of count_connected and its mark_connected calls
  entered              \* how often mark_connected was entered, per node

pipeline_vars ==
  <<graph_text, pc, phase, reading, doubling, graph, bidir_graph,
    connected_subgraphs, twice_graph, connected_twice, threw, calls, new_calls>>

scan_vars == <<scan_in, scan_op, scan_out>>

count_vars == <<count_graph, counting, entered>>

vars == <<input, pipeline_vars, scan_vars, count_vars>>

max_graph_nodes == read_int_v(graph_text)

\* the arena sized for the pairs of the text only
max_graph_edges_pairs == (count_words(graph_text) - 1) \div 2

max_graph_edges == count_words(graph_text)

\* a graph_t before it is initialised, and the frames before their call
no_graph == [used_nodes |-> 0, nodes |-> <<>>, edges |-> edge_storage_t(0)]

no_reading == [text |-> <<>>, graph |-> no_graph, threw |-> "none"]

no_doubling ==
  [new_graph |-> no_graph, i |-> 0, edge_idx |-> nullopt, at |-> "for_i",
   threw |-> "none"]

\* the frame of count_connected before its call
no_counting ==
  [visited |-> <<>>, color |-> 0, i |-> 0, stack |-> <<>>, at |-> "idle",
   threw |-> "none"]

\* no scanner function is under test
ScanIdle == scan_in = <<>> /\ scan_op = "idle" /\ scan_out = <<>>

\* count_connected is not being stepped through
CountIdle == count_graph = no_graph /\ counting = no_counting /\ entered = <<>>

\* the pipeline is not being evaluated
PipelineIdle ==
  /\ graph_text = <<>>
  /\ pc = "idle"
  /\ phase = "main"
  /\ reading = no_reading
  /\ doubling = no_doubling
  /\ graph = no_graph
  /\ bidir_graph = no_graph
  /\ connected_subgraphs = -1
  /\ twice_graph = no_graph
  /\ connected_twice = -1
  /\ threw = "none"
  /\ calls = <<>>
  /\ new_calls = <<>>

Init ==
  /\ ScanIdle
  /\ CountIdle
  /\ \E n \in 0..MaxNodes, st \in Styles, m \in 0..MaxPairs :
       \E ps \in PairsFor(n, m) :
         input = [nodes |-> n, pairs |-> ps, style |-> st]
  /\ graph_text = TextOf(input)
  /\ pc = "read_graph"
  /\ phase = "main"
  /\ reading = no_reading
  /\ doubling = no_doubling
  /\ graph = no_graph
  /\ bidir_graph = no_graph
  /\ connected_subgraphs = -1
  /\ twice_graph = no_graph
  /\ connected_twice = -1
  /\ threw = "none"
  /\ calls = <<>>
  /\ new_calls = <<>>

\* the graph double_up_edges is called with
doubled == IF phase = "main" THEN graph ELSE bidir_graph

\* the graph count_connected is called with
counted == IF phase = "main" THEN bidir_graph ELSE twice_graph

\* constexpr graph_t graph = read_graph( graph_text ): the call
ReadGraphBegin ==
  /\ pc = "read_graph"
  /\ reading' = read_graph_begin(graph_text, max_graph_nodes, max_graph_edges)
  /\ pc' = "read_graph_while"
  /\ calls' = <<>>
  /\ UNCHANGED <<scan_vars, count_vars, input, graph_text, phase, doubling, graph, bidir_graph,
                 connected_subgraphs, twice_graph, connected_twice, threw,
                 new_calls>>

\* one pass through the while loop of read_graph
ReadGraphBody ==
  /\ pc = "read_graph_while"
  /\ read_graph_more(reading)
  /\ \E src_node \in {read_int(reading.text)} :
     \E dst_node \in {read_int(src_node.text)} :
     \E b \in {read_graph_body(reading)} :
       /\ reading' = b
       /\ threw' = b.threw
       /\ pc' = IF b.threw = "none" THEN "read_graph_while" ELSE "threw"
       /\ calls' = IF b.threw = "none"
                     THEN Append(calls, <<src_node.ret, dst_node.ret>>)
                     ELSE calls
  /\ UNCHANGED <<scan_vars, count_vars, input, graph_text, phase, doubling, graph, bidir_graph,
                 connected_subgraphs, twice_graph, connected_twice, new_calls>>

\* read_graph returns
ReadGraphReturn ==
  /\ pc = "read_graph_while"
  /\ ~read_graph_more(reading)
  /\ graph' = reading.graph
  /\ pc' = "double_up_edges"
  /\ UNCHANGED <<scan_vars, count_vars, input, graph_text, phase, reading, doubling, bidir_graph,
                 connected_subgraphs, twice_graph, connected_twice, threw,
                 calls, new_calls>>

\* double_up_edges is called
DoubleUpBegin ==
  /\ pc = "double_up_edges"
  /\ doubling' = double_up_begin(doubled)
  /\ new_calls' = <<>>
  /\ pc' = "double_up_loop"
  /\ UNCHANGED <<scan_vars, count_vars, input, graph_text, phase, reading, graph, bidir_graph,
                 connected_subgraphs, twice_graph, connected_twice, threw, calls>>

\* the test of the outer loop of double_up_edges
DoubleUpForI ==
  /\ pc = "double_up_loop"
  /\ doubling.at = "for_i"
  /\ doubling' = double_up_for_i(doubled, doubling)
  /\ threw' = doubling'.threw
  /\ pc' = IF doubling'.threw = "none" THEN "double_up_loop" ELSE "threw"
  /\ UNCHANGED <<scan_vars, count_vars, input, graph_text, phase, reading, graph, bidir_graph,
                 connected_subgraphs, twice_graph, connected_twice, calls,
                 new_calls>>

\* the add_edge calls of one pass through the inner loop that returned
body_calls(f, g) ==
  LET node_idx == numeric_id_t(f.i)
      dst_node == dst_node_of(doubled, value(f.edge_idx))
      a1       == add_edge(f.new_graph, node_idx, dst_node)
  IN  IF g.threw = "none"
        THEN <<<<value(node_idx), value(dst_node)>>, <<value(dst_node), value(node_idx)>>>>
        ELSE IF a1.threw = "none" THEN <<<<value(node_idx), value(dst_node)>>>>
                                  ELSE <<>>

\* the test, the body and the increment of the inner loop of double_up_edges
DoubleUpForEdge ==
  /\ pc = "double_up_loop"
  /\ doubling.at = "for_edge"
  /\ doubling' = double_up_for_edge(doubled, doubling)
  /\ threw' = doubling'.threw
  /\ pc' = IF doubling'.threw = "none" THEN "double_up_loop" ELSE "threw"
  /\ new_calls' = IF has_value(doubling.edge_idx)
                    THEN new_calls \o body_calls(doubling, doubling')
                    ELSE new_calls
  /\ UNCHANGED <<scan_vars, count_vars, input, graph_text, phase, reading, graph, bidir_graph,
                 connected_subgraphs, twice_graph, connected_twice, calls>>

\* double_up_edges returns new_graph
DoubleUpReturn ==
  /\ pc = "double_up_loop"
  /\ doubling.at = "return"
  /\ bidir_graph' = IF phase = "main" THEN doubling.new_graph ELSE bidir_graph
  /\ twice_graph' = IF phase = "main" THEN twice_graph ELSE doubling.new_graph
  /\ pc' = "count_connected"
  /\ UNCHANGED <<scan_vars, count_vars, input, graph_text, phase, reading, doubling, graph,
                 connected_subgraphs, connected_twice, threw, calls, new_calls>>

\* count_connected, the whole call
CountConnected ==
  /\ pc = "count_connected"
  /\ LET r == count_connected(counted)
     IN  /\ threw' = r.threw
         /\ pc' = IF r.threw # "none" THEN "threw"
                  ELSE IF phase = "main" THEN "main" ELSE "done"
         /\ connected_subgraphs' =
              IF r.threw = "none" /\ phase = "main" THEN r.ret ELSE connected_subgraphs
         /\ connected_twice' =
              IF r.threw = "none" /\ phase = "again" THEN r.ret ELSE connected_twice
  /\ UNCHANGED <<scan_vars, count_vars, input, graph_text, phase, reading, doubling, graph,
                 bidir_graph, twice_graph, calls, new_calls>>

\* after main has its result: bidir_graph is doubled once more
DoubleUpAgain ==
  /\ pc = "main"
  /\ phase' = "again"
  /\ pc' = "double_up_edges"
  /\ UNCHANGED <<scan_vars, count_vars, input, graph_text, reading, doubling, graph, bidir_graph,
                 connected_subgraphs, twice_graph, connected_twice, threw,
                 calls, new_calls>>

Next ==
  \/ ReadGraphBegin
  \/ ReadGraphBody
  \/ ReadGraphReturn
  \/ DoubleUpBegin
  \/ DoubleUpForI
  \/ DoubleUpForEdge
  \/ DoubleUpReturn
  \/ CountConnected
  \/ DoubleUpAgain

Spec == Init /\ [][Next]_vars

\* ------------------------------------------------------------------------
\* The scanner functions, each called once on a text drawn from the texts of
\* up to MaxText characters over ScanChars; view_to_int also on tokens of up
\* to two digits followed by up to MaxFill more digits, all "0" or all "5"
\* ------------------------------------------------------------------------
MaxText == 4
MaxFill == 19

ScanChars == {"0", "1", "9", " ", "\n"}

ScanTexts == UNION { [1..n -> ScanChars] : n \in 0..MaxText }

ScanTokens ==
  { h \o [k \in 1..n |-> f] :
      h \in UNION { [1..m -> {DigitChars[k] : k \in 1..10}] : m \in 1..2 },
      f \in {"0", "5"}, n \in 0..MaxFill }

InitScan ==
  /\ input = [nodes |-> 0, pairs |-> <<>>, style |-> "plain"]
  /\ PipelineIdle
  /\ CountIdle
  /\ scan_in \in ScanTexts \cup ScanTokens
  /\ scan_op = "none"
  /\ scan_out = <<>>

\* scan_op is called on scan_in and returns out
Scanned(op, out) ==
  /\ scan_op = "none"
  /\ scan_op' = op
  /\ scan_out' = out
  /\ UNCHANGED <<input, pipeline_vars, count_vars, scan_in>>

ReadNonWhitespace ==
  /\ scan_in \in ScanTexts
  /\ Scanned("read_non_whitespace", read_non_whitespace(scan_in))

ReadWhitespace ==
  /\ scan_in \in ScanTexts
  /\ Scanned("read_whitespace", read_whitespace(scan_in))

ReadInt ==
  /\ Scanned("read_int", read_int_size_t(scan_in))

\* read_int_v has its own copy of the view: the caller's text stays as it is
ReadIntV ==
  /\ Scanned("read_int_v", [ret |-> read_int_v_size_t(scan_in), text |-> scan_in])

CountWords ==
  /\ scan_in \in ScanTexts
  /\ Scanned("count_words", [ret |-> count_words(scan_in)])

ViewToInt ==
  /\ \A k \in 1..Len(scan_in) : scan_in[k] \notin {" ", "\n"}
  /\ Scanned("view_to_int", [ret |-> view_to_int_size_t(scan_in)])

NextScan ==
  \/ ReadNonWhitespace
  \/ ReadWhitespace
  \/ ReadInt
  \/ ReadIntV
  \/ CountWords
  \/ ViewToInt

SpecScan == InitScan /\ [][NextScan]_vars

\* ------------------------------------------------------------------------
\* count_connected stepped through, on the graph read from a well-formed
\* text and on that graph doubled
\* ------------------------------------------------------------------------
MaxEdges == 3

PairIndex(p, n) == p[1] * n + p[2]

\* the sequences of m pairs of nodes below n, in non-decreasing order
SortedPairsFor(n, m) ==
  { ps \in [1..m -> (0..(n - 1)) \X (0..(n - 1))] :
      \A k \in 1..(m - 1) : PairIndex(ps[k], n) <= PairIndex(ps[k + 1], n) }

InitCount ==
  /\ PipelineIdle
  /\ ScanIdle
  /\ \E n \in 0..MaxNodes, m \in 0..MaxEdges :
       \E ps \in SortedPairsFor(n, m) :
         input = [nodes |-> n, pairs |-> ps, style |-> "plain"]
  /\ \E text \in {TextOf(input)} :
       \E r \in {read_graph(text, read_int_v(text), count_words(text))} :
         count_graph \in {r.graph, double_up_edges(r.graph).new_graph}
  /\ counting = [no_counting EXCEPT !.at = "call"]
  /\ entered = <<>>

\* the frame g follows the frame f: an entry of mark_connected is counted
CountStep(g) ==
  /\ counting' = g
  /\ entered' = IF Len(g.stack) > Len(counting.stack)
                  THEN [entered EXCEPT
                          ![value(g.stack[Len(g.stack)].node_idx)] = @ + 1]
                  ELSE entered
  /\ UNCHANGED <<input, pipeline_vars, scan_vars, count_graph>>

\* count_connected is called: visited is filled with -1
CountConnectedCall ==
  /\ counting.at = "call"
  /\ counting' = count_connected_begin(count_graph)
  /\ entered' = [k \in DOMAIN count_graph.nodes |-> 0]
  /\ UNCHANGED <<input, pipeline_vars, scan_vars, count_graph>>

CountConnectedForI ==
  /\ counting.at = "for_i"
  /\ counting.threw = "none"
  /\ CountStep(count_connected_for_i(count_graph, counting))

MarkConnectedForEdge ==
  /\ counting.at = "mark_connected"
  /\ counting.threw = "none"
  /\ has_value(counting.stack[Len(counting.stack)].edge_idx)
  /\ CountStep(mark_connected_for_edge(count_graph, counting))

MarkConnectedReturn ==
  /\ counting.at = "mark_connected"
  /\ counting.threw = "none"
  /\ ~has_value(counting.stack[Len(counting.stack)].edge_idx)
  /\ CountStep(mark_connected_return(count_graph, counting))

NextCount ==
  \/ CountConnectedCall
  \/ CountConnectedForI
  \/ MarkConnectedForEdge
  \/ MarkConnectedReturn

SpecCount == InitCount /\ [][NextCount]_vars

\* a call that can go on does go on
FairSpecCount == SpecCount /\ WF_vars(NextCount)

\* ------------------------------------------------------------------------
\* read_graph on any text of digits, spaces and newlines, with tokens of at
\* most MaxDigits digits
\* ------------------------------------------------------------------------
MaxReadText == 7

MaxDigits == 1

ReadChars == {"0", "1", " ", "\n"}

\* no more than MaxDigits characters in a row that are not white space
ShortTokens(text) ==
  \A k \in 1..(Len(text) - MaxDigits) :
    \E j \in k..(k + MaxDigits) : text[j] \in {" ", "\n"}

ReadTexts ==
  { text \in UNION { [1..n -> ReadChars] : n \in 0..MaxReadText } : ShortTokens(text) }

InitRead ==
  /\ ScanIdle
  /\ CountIdle
  /\ input = [nodes |-> 0, pairs |-> <<>>, style |-> "plain"]
  /\ graph_text \in ReadTexts
  /\ pc = "read_graph"
  /\ phase = "main"
  /\ reading = no_reading
  /\ doubling = no_doubling
  /\ graph = no_graph
  /\ bidir_graph = no_graph
  /\ connected_subgraphs = -1
  /\ twice_graph = no_graph
  /\ connected_twice = -1
  /\ threw = "none"
  /\ calls = <<>>
  /\ new_calls = <<>>

NextRead ==
  \/ ReadGraphBegin
  \/ ReadGraphBody
  \/ ReadGraphReturn

SpecRead == InitRead /\ [][NextRead]_vars

\* read_graph, once called, runs on
FairSpecRead == SpecRead /\ WF_vars(NextRead)

\* ------------------------------------------------------------------------
\* The whole pipeline as a function of the text (main.cpp lines 156-161 and
\* 229-232): [ret, threw]
\* ------------------------------------------------------------------------
pipeline(text) ==
  LET r == read_graph(text, read_int_v(text), count_words(text))
  IN  IF r.threw # "none" THEN [ret |-> -1, threw |-> r.threw]
      ELSE LET d == double_up_edges(r.graph)
           IN  IF d.threw # "none" THEN [ret |-> -1, threw |-> d.threw]
               ELSE LET c == count_connected(d.new_graph)
                    IN  [ret |-> IF c.threw = "none" THEN c.ret ELSE -1,
                         threw |-> c.threw]

\* ------------------------------------------------------------------------
\* Vocabulary of the properties
\* ------------------------------------------------------------------------
\* every pair of the input names nodes below the node count
WellFormed(in) ==
  \A k \in 1..Len(in.pairs) : in.pairs[k][1] < in.nodes /\ in.pairs[k][2] < in.nodes

RECURSIVE WalkFrom(_, _)
\* the destinations met from the optional edge id e through the next links
WalkFrom(gr, e) ==
  IF ~has_value(e) THEN <<>>
  ELSE <<value(dst_node_of(gr, value(e)))>> \o WalkFrom(gr, next_edge(gr, value(e)))

\* the destinations of the adjacency list of node s, from its edge head
Walk(gr, s) == WalkFrom(gr, first_edge(gr, numeric_id_t(s)))

NodesOf(gr) == 0..(get_num_nodes(gr) - 1)

RECURSIVE SumLen(_, _)
\* the number of edge records on the adjacency lists of nodes 0..n-1
SumLen(gr, n) == IF n = 0 THEN 0 ELSE Len(Walk(gr, n - 1)) + SumLen(gr, n - 1)

Occurrences(seq, x) == Cardinality({k \in 1..Len(seq) : seq[k] = x})

RECURSIVE Reverse(_)
Reverse(seq) == IF seq = <<>> THEN <<>> ELSE Append(Reverse(Tail(seq)), Head(seq))

RECURSIVE DestinationsOf(_, _)
\* the destinations of the calls add_edge(s, .) of a sequence of calls
DestinationsOf(cs, s) ==
  IF cs = <<>> THEN <<>>
  ELSE IF Head(cs)[1] = s THEN <<Head(cs)[2]>> \o DestinationsOf(Tail(cs), s)
                          ELSE DestinationsOf(Tail(cs), s)

\* a and b are joined by a pair, in either direction
Joined(pairs, a, b) ==
  \E k \in 1..Len(pairs) : pairs[k] = <<a, b>> \/ pairs[k] = <<b, a>>

RECURSIVE ComponentOf(_, _, _)
\* the nodes connected to the set S in the undirected closure of the pairs
ComponentOf(n, pairs, S) ==
  LET T == S \cup {b \in 0..(n - 1) : \E a \in S : Joined(pairs, a, b)}
  IN  IF T = S THEN S ELSE ComponentOf(n, pairs, T)

\* the number of connected components of the graph an input describes
Components(n, pairs) ==
  Cardinality({ComponentOf(n, pairs, {x}) : x \in 0..(n - 1)})

\* main has just got its result
Counted == pc = "main"

\* read_graph has just returned
GraphRead == pc = "double_up_edges" /\ phase = "main"

\* C1: for a well-formed text the pipeline read_graph -> double_up_edges ->
\* count_connected does not fail, and the count it returns is the number of
\* connected components of the undirected closure of the described graph on
\* nodes 0..N-1: N when there are no pairs, 1 when N = 1.
C1_ComponentCount ==
  WellFormed(input) =>
    /\ phase = "main" => pc # "threw"
    /\ Counted =>
         /\ connected_subgraphs = Components(input.nodes, input.pairs)
         /\ input.pairs = <<>> => connected_subgraphs = input.nodes
         /\ input.nodes = 1 => connected_subgraphs = 1

C1_Witness ==
  /\ WellFormed(input) /\ Counted
  /\ input.nodes = 3 /\ Len(input.pairs) = 2
  /\ connected_subgraphs = 2

\* C2: read_graph of a text describing N nodes and M edges, whatever the
\* white space between and after the tokens, returns a graph of N nodes
\* whose adjacency lists hold M edge records in all, one per input pair
\* (s, d), on the list of s with destination d.
C2_ReadGraph ==
  WellFormed(input) =>
    /\ pc \in {"read_graph", "read_graph_while"} => reading.threw = "none"
    /\ GraphRead =>
         /\ get_num_nodes(graph) = input.nodes
         /\ SumLen(graph, input.nodes) = Len(input.pairs)
         /\ \A s \in NodesOf(graph), d \in NodesOf(graph) :
              Occurrences(Walk(graph, s), d) = Occurrences(input.pairs, <<s, d>>)

C2_Witness ==
  /\ WellFormed(input) /\ GraphRead /\ input.style = "padded"
  /\ Len(input.pairs) = 2 /\ input.pairs[1] # input.pairs[2]
  /\ SumLen(graph, input.nodes) = 2

\* C3: after any sequence of add_edge calls, walking the adjacency list of a
\* node s from its edge head yields the destinations of the calls
\* add_edge(s, .) in reverse: the edge added last comes first.  Checked on
\* the graph read_graph builds and on the graph double_up_edges builds.
C3_ReverseInsertionOrder ==
  /\ \A s \in DOMAIN reading.graph.nodes :
       Walk(reading.graph, s) = Reverse(DestinationsOf(calls, s))
  /\ \A s \in DOMAIN doubling.new_graph.nodes :
       Walk(doubling.new_graph, s) = Reverse(DestinationsOf(new_calls, s))

C3_Witness ==
  \E s \in DOMAIN reading.graph.nodes :
    /\ Len(DestinationsOf(calls, s)) = 2
    /\ DestinationsOf(calls, s)[1] # DestinationsOf(calls, s)[2]
    /\ Walk(reading.graph, s) = <<DestinationsOf(calls, s)[2], DestinationsOf(calls, s)[1]>>

\* C4: for a graph built from a well-formed text, with graph_t sized from
\* that text, count_connected(double_up_edges(g)) and
\* count_connected(double_up_edges(double_up_edges(g))) both complete and
\* return the same value.
C4_DoubleTwice ==
  WellFormed(input) /\ phase = "again" =>
    /\ pc # "threw"
    /\ pc = "done" => connected_twice = connected_subgraphs

\* the input with every pair (s, d) replaced by (d, s)
ReversedInput(in) ==
  [in EXCEPT !.pairs = [k \in 1..Len(in.pairs) |-> <<in.pairs[k][2], in.pairs[k][1]>>]]

\* C5: the component count of a well-formed text equals the count of the
\* text in which every pair (s, d) is replaced by (d, s).
C5_DirectionInvariant ==
  WellFormed(input) /\ pc = "main" =>
    LET r == pipeline(TextOf(ReversedInput(input)))
    IN  r.threw = "none" /\ r.ret = connected_subgraphs

C5_Witness ==
  /\ WellFormed(input) /\ pc = "main"
  /\ input.pairs = <<<<1, 0>>, <<1, 2>>>>
  /\ pipeline(TextOf(ReversedInput(input))).ret = 1

\* the permutations of 1..n
PermutationsOf(n) ==
  {f \in [1..n -> 1..n] : \A a, b \in 1..n : f[a] = f[b] => a = b}

\* the input with its pairs in the order f
PermutedInput(in, f) ==
  [in EXCEPT !.pairs = [k \in 1..Len(in.pairs) |-> in.pairs[f[k]]]]

\* C6: the component count of a well-formed text equals the count of the
\* text with its pairs in any other order.
C6_OrderInvariant ==
  WellFormed(input) /\ pc = "main" =>
    \A f \in PermutationsOf(Len(input.pairs)) :
      LET r == pipeline(TextOf(PermutedInput(input, f)))
      IN  r.threw = "none" /\ r.ret = connected_subgraphs

C6_Witness ==
  /\ WellFormed(input) /\ pc = "main"
  /\ input.pairs = <<<<0, 0>>, <<2, 1>>>>
  /\ connected_subgraphs = 2
  /\ \E f \in PermutationsOf(2) :
       /\ PermutedInput(input, f).pairs = <<<<2, 1>>, <<0, 0>>>>
       /\ pipeline(TextOf(PermutedInput(input, f))).ret = 2

\* h is g with every edge doubled
DoubledFrom(g, h) ==
  /\ get_num_nodes(h) = get_num_nodes(g)
  /\ \A a, b \in NodesOf(g) :
       /\ Occurrences(Walk(g, a), b) > 0 =>
            Occurrences(Walk(h, a), b) > 0 /\ Occurrences(Walk(h, b), a) > 0
       /\ Occurrences(Walk(h, a), b) =
            Occurrences(Walk(g, a), b) + Occurrences(Walk(g, b), a)
       /\ Occurrences(Walk(h, a), b) > 0 <=> Occurrences(Walk(h, b), a) > 0
  /\ SumLen(h, get_num_nodes(h)) = 2 * SumLen(g, get_num_nodes(g))
  /\ h.edges.next_available = 2 * g.edges.next_available

\* double_up_edges( graph ) has just returned bidir_graph
Doubled == phase = "main" /\ pc = "count_connected"

\* double_up_edges( bidir_graph ) has just returned twice_graph
DoubledAgain == phase = "again" /\ pc = "count_connected"

\* C7: double_up_edges(g) returns a graph with the node count of g in which
\* both A -> B and B -> A are reachable for every edge A -> B of g; it holds
\* exactly 2 x M edge records for the M edges of g and its adjacency
\* relation is symmetric.
C7_DoubleUpEdges ==
  /\ Doubled => DoubledFrom(graph, bidir_graph)
  /\ DoubledAgain => DoubledFrom(bidir_graph, twice_graph)

C7_Witness ==
  /\ Doubled /\ get_num_nodes(graph) = 2
  /\ Walk(graph, 1) = <<1, 0>>
  /\ SumLen(bidir_graph, get_num_nodes(bidir_graph)) = 4
  /\ Walk(bidir_graph, 0) = <<1>>

\* the arenas of a state
Arenas ==
  {reading.graph.edges, doubling.new_graph.edges, graph.edges,
   bidir_graph.edges, twice_graph.edges}

\* the capacity max_edges of an arena
CapacityOf(pool) == Cardinality(DOMAIN pool.edge_memory)

\* C8: in every reachable state of an edge arena, the state left by a failed
\* alloc_edge included, next_available is at most the capacity max_edges.
C8_FreeCounterBounded ==
  \A pool \in Arenas : pool.next_available <= CapacityOf(pool)

\* C9: for a well-formed text, with the arena sized by count_words of the
\* whole text, no alloc_edge call of read_graph or of one double_up_edges of
\* the graph read exceeds the capacity.
C9_NoCapacityFailure ==
  WellFormed(input) /\ phase = "main" =>
    /\ threw # "alloc_edge.at"
    /\ reading.graph.edges.next_available <= CapacityOf(reading.graph.edges)
    /\ doubling.new_graph.edges.next_available <= CapacityOf(doubling.new_graph.edges)

C9_Witness ==
  /\ WellFormed(input) /\ phase = "main" /\ pc = "count_connected"
  /\ Len(input.pairs) = 2
  /\ bidir_graph.edges.next_available = 4
  /\ CapacityOf(bidir_graph.edges) = 5

\* the exceptions of an index outside node, edge or label storage
OutOfRange == {"nodes.at", "get_edge.at", "visited.at"}

\* the evaluation has a next step: one of the guards of Next holds
Running ==
  \/ pc \in {"read_graph", "read_graph_while", "double_up_edges", "count_connected", "main"}
  \/ pc = "double_up_loop" /\ doubling.at \in {"for_i", "for_edge", "return"}

\* C10: for a text in which some pair has a source or a destination >= N the
\* pipeline ends in an out-of-range failure of a bounds-checked access and
\* never returns a component count; the node and edge arrays keep their
\* sizes, nothing is stored outside them.
C10_OutOfRangeFatal ==
  /\ ~WellFormed(input) =>
       /\ phase = "main"
       /\ pc \notin {"count_connected", "main", "done"}
       /\ connected_subgraphs = -1
       /\ pc = "threw" => threw \in OutOfRange
       /\ pc = "threw" \/ Running
  /\ \A g \in {reading.graph, doubling.new_graph} :
       g # no_graph =>
         /\ DOMAIN g.nodes = 0..(input.nodes - 1)
         /\ DOMAIN g.edges.edge_memory = 0..(2 * Len(input.pairs))

C10_Witness ==
  /\ ~WellFormed(input) /\ pc = "threw" /\ threw = "nodes.at"
  /\ input.nodes = 2 /\ input.pairs = <<<<0, 1>>, <<1, 2>>>>
  /\ doubling.new_graph.edges.next_available = 3

\* ------------------------------------------------------------------------
\* Properties of the scanner (SpecScan)
\* ------------------------------------------------------------------------
IsSpace(c) == c \in {" ", "\n"}

\* the length of the longest prefix of text whose characters are all white
\* space (ws = TRUE) or all not white space (ws = FALSE)
LeadingRun(text, ws) ==
  CHOOSE n \in 0..Len(text) :
    /\ \A k \in 1..n : IsSpace(text[k]) = ws
    /\ n = Len(text) \/ IsSpace(text[n + 1]) # ws

\* what a read of the leading run of class ws must return and leave
ReadsLeadingRun(text, ws, out) ==
  LET n == LeadingRun(text, ws)
  IN  /\ out.token = SubSeq(text, 1, n)
      /\ out.text = SubSeq(text, n + 1, Len(text))
      /\ out.token \o out.text = text
      /\ (text = <<>> \/ IsSpace(text[1]) # ws) => out.token = <<>> /\ out.text = text

\* C11: read_non_whitespace (read_whitespace) returns the maximal leading
\* run of characters that are not (are) a space or a newline and leaves the
\* rest in the cursor: token followed by cursor is the text; the token is
\* empty and the cursor unchanged when the text is empty or starts with a
\* character of the other class.
C11_ReadRuns ==
  /\ scan_op = "read_non_whitespace" => ReadsLeadingRun(scan_in, FALSE, scan_out)
  /\ scan_op = "read_whitespace" => ReadsLeadingRun(scan_in, TRUE, scan_out)

C11_Witness ==
  /\ scan_op = "read_non_whitespace"
  /\ scan_in = <<"1", "9", "\n", "0">>
  /\ scan_out.token = <<"1", "9">>
  /\ scan_out.text = <<"\n", "0">>

\* v \div 10 and v % 10 of a size_t, by long division from the top limb
size_t_divmod10(v) ==
  LET q4 == v[4] \div 10
      t3 == (v[4] % 10) * LimbBase + v[3]
      t2 == (t3 % 10) * LimbBase + v[2]
      t1 == (t2 % 10) * LimbBase + v[1]
  IN  [quot |-> <<t1 \div 10, t2 \div 10, t3 \div 10, q4>>, rem |-> t1 % 10]

RECURSIVE ToDecimal(_)
\* the decimal digits of a size_t, without leading zeros (none for zero)
ToDecimal(v) ==
  IF v = size_t_zero THEN <<>>
  ELSE LET dm == size_t_divmod10(v)
       IN  Append(ToDecimal(dm.quot), DigitChars[dm.rem + 1])

RECURSIVE Canonical(_)
\* a token of digits without its leading zeros
Canonical(token) ==
  IF token # <<>> /\ token[1] = "0" THEN Canonical(Tail(token)) ELSE token

StartsWithToken(text) == text # <<>> /\ ~IsSpace(text[1])

\* C12: for a text that starts with a decimal token, read_int returns the
\* value of that token and leaves the cursor past the token and the whole
\* run of white space after it, so the cursor is empty or starts with a
\* character that is not white space; read_int_v returns the same value and
\* leaves the caller's text as it was.
C12_ReadInt ==
  StartsWithToken(scan_in) =>
    LET n == LeadingRun(scan_in, FALSE)
        rest == SubSeq(scan_in, n + 1, Len(scan_in))
        w == LeadingRun(rest, TRUE)
    IN  /\ scan_op = "read_int" =>
             /\ ToDecimal(scan_out.ret) = Canonical(SubSeq(scan_in, 1, n))
             /\ scan_out.text = SubSeq(rest, w + 1, Len(rest))
             /\ scan_out.text = <<>> \/ ~IsSpace(scan_out.text[1])
        /\ scan_op = "read_int_v" =>
             /\ ToDecimal(scan_out.ret) = Canonical(SubSeq(scan_in, 1, n))
             /\ scan_out.text = scan_in

\* C13: for every token of decimal digits view_to_int returns the
\* number the token denotes in base 10 (leading zeros allowed), 0 for the
\* empty token.
C13_DenotedNumber ==
  scan_op = "view_to_int" =>
    /\ ToDecimal(scan_out.ret) = Canonical(scan_in)
    /\ scan_in = <<>> => scan_out.ret = size_t_zero

\* the number of maximal runs of characters that are not white space
Words(text) ==
  Cardinality({k \in 1..Len(text) :
                 ~IsSpace(text[k]) /\ (k = 1 \/ IsSpace(text[k - 1]))})

RECURSIVE ReadsToEmpty(_)
\* the number of read_int calls that empty the cursor
ReadsToEmpty(text) ==
  IF text = <<>> THEN 0 ELSE 1 + ReadsToEmpty(read_int(text).text)

\* C14: count_words returns the number of maximal runs of characters that
\* are not white space, for every text (empty, with leading, trailing or
\* repeated white space); for a text that does not start with white space
\* this is the number of read_int calls needed to empty the cursor.
C14_CountWords ==
  scan_op = "count_words" =>
    /\ scan_out.ret = Words(scan_in)
    /\ (scan_in = <<>> \/ ~IsSpace(scan_in[1])) => scan_out.ret = ReadsToEmpty(scan_in)

C14_Witness ==
  /\ scan_op = "count_words"
  /\ scan_in = <<"1", " ", "\n", "9">>
  /\ scan_out.ret = 2 /\ ReadsToEmpty(scan_in) = 2

\* ------------------------------------------------------------------------
\* Properties of add_edge
\* ------------------------------------------------------------------------
\* what add_edge( source, destination ) that returned made of graph g
AddedEdge(g, h, source, destination) ==
  LET index == g.edges.next_available
  IN  /\ h.edges.next_available = index + 1
      /\ DOMAIN h.edges.edge_memory = DOMAIN g.edges.edge_memory
      /\ h.edges.edge_memory[index] =
           edge_t(numeric_id_t(destination), g.nodes[source].edge_begin_id)
      /\ h.nodes[source].edge_begin_id = optional_edge_id_t(numeric_id_t(index))
      /\ h.used_nodes = g.used_nodes
      /\ DOMAIN h.nodes = DOMAIN g.nodes
      /\ \A k \in DOMAIN g.nodes :
           /\ h.nodes[k].node_id = g.nodes[k].node_id
           /\ k # source => h.nodes[k].edge_begin_id = g.nodes[k].edge_begin_id
      /\ \A e \in 0..(index - 1) : h.edges.edge_memory[e] = g.edges.edge_memory[e]

\* C15: an add_edge(source, destination) that returns allocates exactly one
\* edge record {destination, next = previous head of source} at index
\* next_available, advances next_available by one and makes that index the
\* head of source; the node count, the id of every node, the head of every
\* other node and every edge record allocated before are left as they were.
C15_AddEdgeFrame ==
  [][(pc = "read_graph_while" /\ Len(calls') = Len(calls) + 1) =>
       AddedEdge(reading.graph, reading'.graph,
                 calls'[Len(calls')][1], calls'[Len(calls')][2])]_vars

C15_Witness ==
  /\ pc = "read_graph_while"
  /\ calls = <<<<0, 1>>, <<0, 2>>>>
  /\ reading.graph.edges.next_available = 2
  /\ reading.graph.edges.edge_memory[1] =
       edge_t(numeric_id_t(2), optional_edge_id_t(numeric_id_t(0)))
  /\ reading.graph.nodes[0].edge_begin_id = optional_edge_id_t(numeric_id_t(1))

\* ------------------------------------------------------------------------
\* Properties of count_connected and mark_connected (SpecCount)
\* ------------------------------------------------------------------------
Returned == counting.at = "return"

\* a label, once written, stays
LabelsKept ==
  \A k \in DOMAIN counting.visited :
    counting.visited[k] # -1 => counting'.visited[k] = counting.visited[k]

\* a node is unvisited and never entered, or labeled and entered once
EnteredOnce ==
  counting.at # "call" =>
    /\ counting.threw = "none"
    /\ \A k \in DOMAIN entered :
         \/ entered[k] = 0 /\ counting.visited[k] = -1
         \/ entered[k] = 1 /\ counting.visited[k] \in 0..counting.color

AllLabeled ==
  Returned =>
    \A k \in NodesOf(count_graph) : entered[k] = 1 /\ counting.visited[k] >= 0

\* C16: in every run of count_connected on a graph whose edges all point to
\* nodes below N (cycles, self-loops and parallel edges included) each node
\* is labeled exactly once: its entry of visited goes from -1 to a colour
\* and never changes afterwards, mark_connected is entered exactly once per
\* node, and the run terminates with no node left unvisited.
C16_LabeledOnce ==
  /\ [][LabelsKept]_vars
  /\ []EnteredOnce
  /\ []AllLabeled
  /\ <>Returned

C16_Witness ==
  /\ Returned
  /\ input = [nodes |-> 3, pairs |-> <<<<0, 1>>, <<0, 1>>, <<1, 1>>>>, style |-> "plain"]
  /\ count_graph.edges.next_available = 6
  /\ entered = [k \in 0..2 |-> 1]
  /\ counting.visited = [k \in 0..2 |-> IF k = 2 THEN 1 ELSE 0]

\* every edge a -> b of the graph has its edge b -> a
Symmetric(gr) ==
  \A a, b \in NodesOf(gr) :
    Occurrences(Walk(gr, a), b) = Occurrences(Walk(gr, b), a)

\* the nodes connected to node k in the graph the input describes
InputComponent(k) == ComponentOf(input.nodes, input.pairs, {k})

Least(S) == CHOOSE x \in S : \A y \in S : x <= y

\* C17: when count_connected returns c on a symmetrized graph, the labels
\* in visited are exactly 0..c-1, two nodes carry the same label iff they
\* are connected, and the colours follow the order of the smallest node id
\* of the components (node 0, when there is one, has label 0).
C17_Labels ==
  (Returned /\ Symmetric(count_graph)) =>
    LET c == counting.color
        label == counting.visited
        nodes == NodesOf(count_graph)
    IN  /\ c = count_connected(count_graph).ret
        /\ {label[k] : k \in nodes} = 0..(c - 1)
        /\ \A a, b \in nodes : (label[a] = label[b]) <=> (b \in InputComponent(a))
        /\ \A a, b \in nodes :
             Least(InputComponent(a)) < Least(InputComponent(b)) => label[a] < label[b]
        /\ 0 \in nodes => label[0] = 0

C17_Witness ==
  /\ Returned
  /\ input = [nodes |-> 3, pairs |-> <<<<0, 2>>>>, style |-> "plain"]
  /\ Symmetric(count_graph)
  /\ count_graph.edges.next_available = 2
  /\ counting.color = 2
  /\ counting.visited = [k \in 0..2 |-> IF k = 1 THEN 1 ELSE 0]

RECURSIVE BallOf(_, _)
\* the nodes at most d pairs away from node a
BallOf(a, d) ==
  IF d = 0 THEN {a}
  ELSE LET B == BallOf(a, d - 1)
       IN  B \cup {y \in 0..(input.nodes - 1) : \E x \in B : Joined(input.pairs, x, y)}

\* the shortest-path distance between two connected nodes
Distance(a, b) == Least({d \in 0..input.nodes : b \in BallOf(a, d)})

\* the largest shortest-path distance between two nodes of a component
Diameter(S) ==
  CHOOSE d \in 0..input.nodes :
    /\ \E a, b \in S : Distance(a, b) = d
    /\ \A a, b \in S : Distance(a, b) <= d

\* a mark_connected walk is under way on a symmetrized graph
Walking == counting.at = "mark_connected" /\ Symmetric(count_graph)

\* the mark_connected calls made by mark_connected that have not returned
NestedCalls == Len(counting.stack) - 1

\* the component the walk explores: that of the node count_connected called
\* mark_connected with
Explored == InputComponent(value(counting.stack[1].node_idx))

\* C18 as stated: at every point of a mark_connected walk on a symmetrized
\* graph the number of nested recursive mark_connected calls is at most the
\* diameter of the connected component being explored.
C18_DepthWithinDiameter == Walking => NestedCalls <= Diameter(Explored)

\* C18 as amended: at every point of a mark_connected walk on a symmetrized
\* graph the number of nested recursive mark_connected calls is at most the
\* number of nodes of the connected component being explored, less one.
C18_DepthWithinComponent == Walking => NestedCalls <= Cardinality(Explored) - 1

C18_Witness ==
  /\ Walking
  /\ input = [nodes |-> 3, pairs |-> <<<<0, 1>>, <<0, 2>>, <<1, 2>>>>, style |-> "plain"]
  /\ NestedCalls = 2
  /\ Diameter(Explored) = 1
  /\ Cardinality(Explored) = 3

\* ------------------------------------------------------------------------
\* Self-loops, and the capacity of the doubled graph
\* ------------------------------------------------------------------------
\* the number of pairs (x, x) of an input
SelfLoops(in, x) == Cardinality({k \in 1..Len(in.pairs) : in.pairs[k] = <<x, x>>})

\* the input with its pairs (x, x) taken out
WithoutSelfLoops(in) ==
  [in EXCEPT !.pairs = SelectSeq(in.pairs, LAMBDA p : p[1] # p[2])]

\* C19: for every well-formed text with self-loop pairs (x, x),
\* double_up_edges inserts each self-loop twice, as parallel x -> x edges,
\* and the component count is that of the text without its self-loop pairs.
C19_SelfLoops ==
  (WellFormed(input) /\ Counted /\ \E x \in 0..(input.nodes - 1) : SelfLoops(input, x) > 0) =>
    /\ \A x \in 0..(input.nodes - 1) :
         /\ Occurrences(Walk(graph, x), x) = SelfLoops(input, x)
         /\ Occurrences(Walk(bidir_graph, x), x) = 2 * SelfLoops(input, x)
    /\ \E r \in {pipeline(TextOf(WithoutSelfLoops(input)))} :
         r.threw = "none" /\ r.ret = connected_subgraphs

C19_Witness ==
  /\ Counted
  /\ input.nodes = 2 /\ input.pairs = <<<<1, 1>>, <<0, 1>>>>
  /\ Walk(bidir_graph, 1) = <<1, 1, 0>>
  /\ connected_subgraphs = 1

\* C20: the edge arena of the graph double_up_edges(g) returns has a
\* capacity of exactly 2 x (number of edges of g): it has admitted that many
\* alloc_edge calls and the next one fails.
C20_DoubledCapacity ==
  (WellFormed(input) /\ Doubled) =>
    /\ bidir_graph.edges.next_available = 2 * graph.edges.next_available
    /\ CapacityOf(bidir_graph.edges) = 2 * graph.edges.next_available
    /\ alloc_edge(bidir_graph.edges, numeric_id_t(0), nullopt).threw

\* ------------------------------------------------------------------------
\* The three programs
\* ------------------------------------------------------------------------
\* C21: for every well-formed text the three programs return the same
\* component count: main.cpp (double_up_edges, then count_connected with
\* integer colours and optional edge ids), the README (count_connected
\* doubles the edges itself and marks nodes in an array of bool) and
\* part_001 (raw indices, -1 at the end of a list).
C21_VariantsAgree ==
  (WellFormed(input) /\ Counted) =>
    \E b \in {readme_pipeline(graph_text)}, c \in {sentinel_pipeline(graph_text)} :
      /\ b.threw = "none" /\ b.ret = connected_subgraphs
      /\ c.threw = "none" /\ c.ret = connected_subgraphs

C21_Witness ==
  /\ WellFormed(input) /\ Counted
  /\ input.nodes = 3 /\ input.pairs = <<<<2, 0>>, <<2, 2>>>>
  /\ connected_subgraphs = 2
  /\ readme_pipeline(graph_text).ret = 2
  /\ sentinel_pipeline(graph_text).ret = 2

\* ------------------------------------------------------------------------
\* The structure of the adjacency lists
\* ------------------------------------------------------------------------
RECURSIVE EdgeIdsFrom(_, _)
\* the edge ids met from the optional edge id e through the next links
EdgeIdsFrom(gr, e) ==
  IF ~has_value(e) THEN <<>>
  ELSE <<value(value(e))>> \o EdgeIdsFrom(gr, next_edge(gr, value(e)))

\* the edge ids on the adjacency list of node s
EdgeIdsOf(gr, s) == EdgeIdsFrom(gr, first_edge(gr, numeric_id_t(s)))

RECURSIVE ReachableEdges(_, _)
\* the number of edge records on the lists of the nodes in S
ReachableEdges(gr, S) ==
  IF S = {} THEN 0
  ELSE LET s == CHOOSE x \in S : TRUE
       IN  Len(EdgeIdsOf(gr, s)) + ReachableEdges(gr, S \ {s})

ListStructure(gr) ==
  LET allocated == 0..(gr.edges.next_available - 1)
  IN  /\ \A e \in allocated :
           /\ e \in DOMAIN gr.edges.edge_memory
           /\ LET next == gr.edges.edge_memory[e].next_edge
              IN  has_value(next) => value(value(next)) < e
           /\ Cardinality({s \in DOMAIN gr.nodes :
                             Occurrences(EdgeIdsOf(gr, s), e) > 0}) = 1
           /\ \A s \in DOMAIN gr.nodes : Occurrences(EdgeIdsOf(gr, s), e) <= 1
      /\ ReachableEdges(gr, DOMAIN gr.nodes) = gr.edges.next_available
      /\ has_value(optional_edge_id_t(numeric_id_t(0)))

\* C22: after any sequence of add_edge calls the next link of every
\* allocated edge is absent or an edge id below the edge's own, so every
\* adjacency list is finite and acyclic; every edge id below next_available
\* is on the list of exactly one node; the edges reachable from the heads
\* are next_available in number; edge id 0 is an edge, not the end of a
\* list.
C22_ListStructure ==
  ListStructure(reading.graph) /\ ListStructure(doubling.new_graph)

\* ------------------------------------------------------------------------
\* Termination of read_graph (FairSpecRead)
\* ------------------------------------------------------------------------
\* read_int on a cursor that is not empty leaves a shorter cursor
ReadIntConsumes(text) ==
  text # <<>> => Len(read_int_size_t(text).text) < Len(text)

\* the read_int calls of the state: that of num_nodes, or those of the pass
\* through the loop to come
ReadIntsConsume ==
  /\ pc = "read_graph" => ReadIntConsumes(graph_text)
  /\ pc = "read_graph_while" =>
       /\ ReadIntConsumes(reading.text)
       /\ ReadIntConsumes(read_int_size_t(reading.text).text)

\* a pass through the loop leaves a shorter cursor
CursorShrinks ==
  (pc = "read_graph_while" /\ reading' # reading) =>
    Len(reading'.text) < Len(reading.text)

\* read_graph has returned its graph, or add_edge has thrown
ReadGraphEnded ==
  \/ pc = "double_up_edges" /\ threw = "none" /\ graph = reading.graph
  \/ pc = "threw" /\ threw \in {"nodes.at", "alloc_edge.at"}

\* C23: for every text of digits, spaces and newlines, well-formed or not,
\* the loop of read_graph terminates, with the graph returned or with
\* add_edge failing: every read_int on a cursor that is not empty removes at
\* least one character, so the cursor gets shorter with each pass.
C23_ReadGraphTerminates ==
  /\ []ReadIntsConsume
  /\ [][CursorShrinks]_vars
  /\ <>ReadGraphEnded

C23_Witness ==
  /\ pc = "double_up_edges"
  /\ graph_text = <<"1", "\n", "0", " ", "0", " ", "0">>
  /\ calls = <<<<0, 0>>, <<0, 0>>>>
  /\ reading.text = <<>>
  /\ graph.edges.next_available = 2

====
